---------------------------- MODULE Spec2Model ----------------------------
(***************************************************************************)
(* A model of azure-pipelines-analyzer's YAML front end: the encoding      *)
(* detector (syntax/parser/encoding.rs) and the recursive-descent parser   *)
(* (syntax/parser/mod.rs) with its lossless tree builder.                  *)
(*                                                                         *)
(* Text is a sequence of Unicode scalar values (integers).  Scanner        *)
(* positions and spans are byte offsets into the UTF-8 form of the text,   *)
(* as in the source (pos() = text.len() - iter.as_str().len()).            *)
(*                                                                         *)
(* Every method of Parser is an operator over a parser record p; a method  *)
(* that also returns a value returns [p |-> parser after, v |-> value].    *)
(* A panic (expect, assert!, debug_assert!, slice index) is recorded in    *)
(* p.failure; once set, the cursor, the builder and the diagnostics no     *)
(* longer change.  The model is of a debug build: peek() counts its calls. *)
(***************************************************************************)
EXTENDS Integers, Sequences, FiniteSets, TLC

\* ------------------------------------------------------------------ bounds

\* Longest free suffix appended to a directive stem (TextInputs).
MaxTail == 3
\* Longest raw byte string tried against the encoding detector (RawInputs).
MaxBytes == 4

\* ------------------------------------------------------- character classes

\* Option<char>::None
None == -1

\* The character literals of the directive grammar, by scalar value.
LF == 10
CR == 13
BANG == 33
HASH == 35
PERCENT == 37
DOT == 46

is_printable(ch) ==
    \/ ch = 9
    \/ ch = 10
    \/ (32 <= ch /\ ch <= 126)
    \/ ch = 133
    \/ (160 <= ch /\ ch <= 55295)
    \/ (57344 <= ch /\ ch <= 65533)
    \/ (65536 <= ch /\ ch <= 1114111)

is_break(ch) == ch = 13 \/ ch = 10

is_byte_order_mark(ch) == ch = 65279

is_whitespace(ch) == ch = 32 \/ ch = 9

is_non_break(ch) == is_printable(ch) /\ ~is_break(ch) /\ ~is_byte_order_mark(ch)

is_non_whitespace(ch) == is_non_break(ch) /\ ~is_whitespace(ch)

is_dec_digit(ch) == 48 <= ch /\ ch <= 57

is_ascii_alphanumeric(ch) ==
    \/ (48 <= ch /\ ch <= 57)
    \/ (65 <= ch /\ ch <= 90)
    \/ (97 <= ch /\ ch <= 122)

is_word_char(ch) == is_ascii_alphanumeric(ch) \/ ch = 45

is_flow_indicator(ch) == ch \in {44, 91, 93, 123, 125}

is_indicator(ch) ==
    \/ ch \in {45, 63, 58, 35, 38, 42, 33, 124, 62, 39, 34, 37, 64, 96}
    \/ is_flow_indicator(ch)

is_anchor_char(ch) == is_non_whitespace(ch) /\ ~is_flow_indicator(ch)

is_uri_char(ch) ==
    \/ is_word_char(ch)
    \/ ch \in {37, 35, 59, 47, 63, 58, 64, 38, 61, 43, 36, 44, 95, 46, 33,
               126, 42, 39, 40, 41, 91, 93}

is_tag_char(ch) == is_uri_char(ch) /\ ~is_flow_indicator(ch) /\ ch # 33

is_separator(ch) == is_break(ch) \/ is_whitespace(ch)

is_flow_indicator_or_separator(ch) == is_separator(ch) \/ is_flow_indicator(ch)

\* A predicate passed as `impl Fn(char) -> bool`, by name.
test(pred, ch) ==
    CASE pred = "is_break" -> is_break(ch)
      [] pred = "is_whitespace" -> is_whitespace(ch)
      [] pred = "is_non_break" -> is_non_break(ch)
      [] pred = "is_non_whitespace" -> is_non_whitespace(ch)
      [] pred = "is_dec_digit" -> is_dec_digit(ch)
      [] pred = "is_word_char" -> is_word_char(ch)
      [] pred = "is_flow_indicator" -> is_flow_indicator(ch)
      [] pred = "is_anchor_char" -> is_anchor_char(ch)
      [] pred = "is_uri_char" -> is_uri_char(ch)
      [] pred = "is_tag_char" -> is_tag_char(ch)
      [] pred = "is_separator" -> is_separator(ch)
      [] pred = "is_flow_indicator_or_separator" -> is_flow_indicator_or_separator(ch)

\* ------------------------------------------------------------ UTF-8 layout

\* char::len_utf8
len_utf8(ch) ==
    IF ch < 128 THEN 1 ELSE IF ch < 2048 THEN 2 ELSE IF ch < 65536 THEN 3 ELSE 4

\* The bytes of one scalar value in a Rust str.
encode_utf8(ch) ==
    IF ch < 128 THEN <<ch>>
    ELSE IF ch < 2048 THEN <<192 + (ch \div 64), 128 + (ch % 64)>>
    ELSE IF ch < 65536
         THEN <<224 + (ch \div 4096), 128 + ((ch \div 64) % 64), 128 + (ch % 64)>>
    ELSE <<240 + (ch \div 262144), 128 + ((ch \div 4096) % 64),
           128 + ((ch \div 64) % 64), 128 + (ch % 64)>>

RECURSIVE str_bytes(_)
\* str::as_bytes
str_bytes(s) == IF s = <<>> THEN <<>> ELSE encode_utf8(Head(s)) \o str_bytes(Tail(s))

RECURSIVE str_len(_)
\* str::len, in bytes
str_len(s) == IF s = <<>> THEN 0 ELSE len_utf8(Head(s)) + str_len(Tail(s))

RECURSIVE char_index(_, _, _, _)
\* The number of characters of s that start before byte offset b, or -1 when
\* b is not a character boundary of s (a str slice at b panics).
char_index(s, b, i, off) ==
    IF off = b THEN i
    ELSE IF off > b \/ i >= Len(s) THEN -1
    ELSE char_index(s, b, i + 1, off + len_utf8(s[i + 1]))

\* ------------------------------------------------------- encoding detector

Ok(text) == [ok |-> TRUE, text |-> text, err |-> "none"]
Err(e) == [ok |-> FALSE, text |-> <<>>, err |-> e]

\* char::from_u32: a scalar value is at most 0x10FFFF and no surrogate.
is_scalar(u) == (0 <= u /\ u < 55296) \/ (57343 < u /\ u <= 1114111)

RECURSIVE utf32_chars(_, _)
\* chunks(4).map(from_xx_bytes).map(char::from_u32).collect::<Option<String>>()
utf32_chars(text, be) ==
    IF text = <<>> THEN Ok(<<>>)
    ELSE LET u == IF be
                  THEN ((text[1] * 256 + text[2]) * 256 + text[3]) * 256 + text[4]
                  ELSE ((text[4] * 256 + text[3]) * 256 + text[2]) * 256 + text[1]
             rest == utf32_chars(SubSeq(text, 5, Len(text)), be)
         IN  IF is_scalar(u) /\ rest.ok THEN Ok(<<u>> \o rest.text) ELSE Err("Utf32")

decode_utf32_be(text) ==
    IF Len(text) % 4 # 0 THEN Err("Utf32") ELSE utf32_chars(text, TRUE)

decode_utf32_le(text) ==
    IF Len(text) % 4 # 0 THEN Err("Utf32") ELSE utf32_chars(text, FALSE)

RECURSIVE utf16_chars(_, _)
\* char::decode_utf16(chunks(2).map(from_xx_bytes)).collect::<Result<String, _>>()
utf16_chars(text, be) ==
    IF text = <<>> THEN Ok(<<>>)
    ELSE LET u == IF be THEN text[1] * 256 + text[2] ELSE text[2] * 256 + text[1]
         IN  IF u < 55296 \/ u > 57343
             THEN LET rest == utf16_chars(SubSeq(text, 3, Len(text)), be)
                  IN  IF rest.ok THEN Ok(<<u>> \o rest.text) ELSE Err("Utf16")
             ELSE IF u >= 56320 \/ Len(text) < 4 THEN Err("Utf16")
             ELSE LET u2 == IF be THEN text[3] * 256 + text[4]
                                  ELSE text[4] * 256 + text[3]
                      rest == utf16_chars(SubSeq(text, 5, Len(text)), be)
                  IN  IF u2 < 56320 \/ u2 > 57343 \/ ~rest.ok THEN Err("Utf16")
                      ELSE Ok(<<65536 + (u - 55296) * 1024 + (u2 - 56320)>> \o rest.text)

decode_utf16_be(text) ==
    IF Len(text) % 2 # 0 THEN Err("Utf16") ELSE utf16_chars(text, TRUE)

decode_utf16_le(text) ==
    IF Len(text) % 2 # 0 THEN Err("Utf16") ELSE utf16_chars(text, FALSE)

\* A UTF-8 continuation byte within lo..hi at index i of text.
cont(text, i, lo, hi) == i <= Len(text) /\ lo <= text[i] /\ text[i] <= hi

RECURSIVE utf8_chars(_)
\* str::from_utf8: well-formed UTF-8 only (no overlong forms, no surrogates,
\* nothing above U+10FFFF).
utf8_chars(text) ==
    IF text = <<>> THEN Ok(<<>>)
    ELSE LET b == text[1]
             n == IF b < 128 THEN 1
                  ELSE IF 194 <= b /\ b <= 223 /\ cont(text, 2, 128, 191) THEN 2
                  ELSE IF \/ (b = 224 /\ cont(text, 2, 160, 191))
                          \/ (225 <= b /\ b <= 236 /\ cont(text, 2, 128, 191))
                          \/ (b = 237 /\ cont(text, 2, 128, 159))
                          \/ (238 <= b /\ b <= 239 /\ cont(text, 2, 128, 191))
                       THEN IF cont(text, 3, 128, 191) THEN 3 ELSE 0
                  ELSE IF \/ (b = 240 /\ cont(text, 2, 144, 191))
                          \/ (241 <= b /\ b <= 243 /\ cont(text, 2, 128, 191))
                          \/ (b = 244 /\ cont(text, 2, 128, 143))
                       THEN IF cont(text, 3, 128, 191) /\ cont(text, 4, 128, 191)
                            THEN 4 ELSE 0
                  ELSE 0
         IN  IF n = 0 THEN Err("Utf8")
             ELSE LET ch == CASE n = 1 -> b
                              [] n = 2 -> (b - 192) * 64 + (text[2] - 128)
                              [] n = 3 -> (b - 224) * 4096 + (text[2] - 128) * 64
                                          + (text[3] - 128)
                              [] n = 4 -> (b - 240) * 262144 + (text[2] - 128) * 4096
                                          + (text[3] - 128) * 64 + (text[4] - 128)
                      rest == utf8_chars(SubSeq(text, n + 1, Len(text)))
                  IN  IF rest.ok THEN Ok(<<ch>> \o rest.text) ELSE Err("Utf8")

decode_utf8(text) == utf8_chars(text)

\* text matches the slice pattern [pat.., ..]; -1 in pat is the wildcard `_`.
matches(text, pat) ==
    /\ Len(text) >= Len(pat)
    /\ \A i \in 1..Len(pat) : pat[i] = -1 \/ text[i] = pat[i]

\* decode's match with the decoders of its two "ASCII first character"
\* 16-bit arms exchanged.
decode_arm_ascii16_swapped(text) ==
    CASE matches(text, <<0, 0, 254, 255>>) -> "utf32_be"
      [] OTHER ->
    CASE matches(text, <<0, 0, 0, -1>>) -> "utf32_be"
      [] OTHER ->
    CASE matches(text, <<255, 254, 0, 0>>) -> "utf32_le"
      [] OTHER ->
    CASE matches(text, <<-1, 0, 0, 0>>) -> "utf32_le"
      [] OTHER ->
    CASE matches(text, <<254, 255>>) -> "utf16_be"
      [] OTHER ->
    CASE matches(text, <<0, -1>>) -> "utf16_le"
      [] OTHER ->
    CASE matches(text, <<255, 254>>) -> "utf16_le"
      [] OTHER ->
    CASE matches(text, <<-1, 0>>) -> "utf16_be"
      [] OTHER -> "utf8"

\* The arm of decode's match that text selects: the first pattern, in source
\* order, that matches.
decode_arm(text) ==
    CASE matches(text, <<0, 0, 254, 255>>) -> "utf32_be"
      [] OTHER ->
    CASE matches(text, <<0, 0, 0, -1>>) -> "utf32_be"
      [] OTHER ->
    CASE matches(text, <<255, 254, 0, 0>>) -> "utf32_le"
      [] OTHER ->
    CASE matches(text, <<-1, 0, 0, 0>>) -> "utf32_le"
      [] OTHER ->
    CASE matches(text, <<254, 255>>) -> "utf16_be"
      [] OTHER ->
    CASE matches(text, <<0, -1>>) -> "utf16_be"
      [] OTHER ->
    CASE matches(text, <<255, 254>>) -> "utf16_le"
      [] OTHER ->
    CASE matches(text, <<-1, 0>>) -> "utf16_le"
      [] OTHER -> "utf8"

\* encoding::decode
decode(text) ==
    LET arm == decode_arm(text)
    IN  CASE arm = "utf32_be" -> decode_utf32_be(text)
          [] arm = "utf32_le" -> decode_utf32_le(text)
          [] arm = "utf16_be" -> decode_utf16_be(text)
          [] arm = "utf16_le" -> decode_utf16_le(text)
          [] arm = "utf8" -> decode_utf8(text)

\* impl Display for DecodeError
decode_error_message(e) ==
    CASE e = "Utf8" -> "source file was not valid utf-8"
      [] e = "Utf16" -> "source file was not valid utf-16"
      [] e = "Utf32" -> "source file was not valid utf-32"

\* ------------------------------------------------- tree builder and cursor

\* PeekLimit is the threshold of peek()'s runaway-loop guard.
PeekLimit == 1000

\* `let x = value; body`: body(x), with value written once.
With(value, body(_)) == body(value)

\* A leaf of the green tree: a kind and the exact source text.
Tok(kind, text) == [kind |-> kind, text |-> text, children |-> <<>>, token |-> TRUE]

\* An inner node of the green tree.
Node(kind, children) ==
    [kind |-> kind, text |-> <<>>, children |-> children, token |-> FALSE]

Span(start, end) == [start |-> start, end |-> end]

Diagnostic_new(span, severity, message) ==
    [span |-> span, severity |-> severity, message |-> message]

\* Parser::new: a builder with the Root node open, the cursor at the start.
Parser_new(text) ==
    [text |-> text, idx |-> 0, children |-> <<>>,
     parents |-> <<[kind |-> "Root", first_child |-> 0]>>,
     diagnostics |-> <<>>, peek_count |-> 0, failure |-> "none"]

Failed(p) == p.failure # "none"

\* A panic: the first one is kept, and the parse does nothing after it.
panic(p, message) == IF Failed(p) THEN p ELSE [p EXCEPT !.failure = message]

\* Parser::pos, a byte offset
pos(p) == str_len(SubSeq(p.text, 1, p.idx))

\* Parser::peek: the character at the cursor, counted by the guard.
peek(p) ==
    IF Failed(p) THEN [p |-> p, v |-> None]
    ELSE IF p.peek_count > PeekLimit
         THEN [p |-> panic([p EXCEPT !.peek_count = @ + 1],
                           "detected infinite loop in parser"),
               v |-> None]
    ELSE [p |-> [p EXCEPT !.peek_count = @ + 1],
          v |-> IF p.idx < Len(p.text) THEN p.text[p.idx + 1] ELSE None]

\* Parser::bump: one character on, the guard's counter back to zero.
bump(p) ==
    IF Failed(p) THEN p
    ELSE IF p.idx >= Len(p.text)
         THEN panic([p EXCEPT !.peek_count = 0], "called bump at end of input")
    ELSE [p EXCEPT !.peek_count = 0, !.idx = @ + 1]

\* Parser::is
is(p, pred) ==
    With(peek(p), LAMBDA r : [p |-> r.p, v |-> r.v # None /\ test(pred, r.v)])

\* Parser::is_char
is_char(p, ch) == With(peek(p), LAMBDA r : [p |-> r.p, v |-> r.v = ch])

\* Parser::is_end_of_input
is_end_of_input(p) == With(peek(p), LAMBDA r : [p |-> r.p, v |-> r.v = None])

\* Parser::is_start_of_line: at the start of the text or just after a break.
is_start_of_line(p) == p.idx = 0 \/ is_break(p.text[p.idx])

\* Parser::eat_char
eat_char(p, ch) ==
    With(is_char(p, ch), LAMBDA r :
        IF r.v THEN [p |-> bump(r.p), v |-> TRUE] ELSE [p |-> r.p, v |-> FALSE])

RECURSIVE eat_while_loop(_, _)
\* The loop of Parser::eat_while.
eat_while_loop(p, pred) ==
    With(is(p, pred), LAMBDA r :
        IF r.v THEN eat_while_loop(bump(r.p), pred) ELSE r.p)

\* Parser::eat_while: the span consumed.
eat_while(p, pred) ==
    With(eat_while_loop(p, pred), LAMBDA q : [p |-> q, v |-> Span(pos(p), pos(q))])

\* Whether &self.text[span] is a valid slice: ordered ends on character
\* boundaries (a str slice panics otherwise).
span_ok(p, span) ==
    /\ span.start <= span.end
    /\ char_index(p.text, span.start, 0, 0) >= 0
    /\ char_index(p.text, span.end, 0, 0) >= 0

\* The value of &s[span] for a span that is a valid slice of s.
str_slice(s, span) ==
    SubSeq(s, char_index(s, span.start, 0, 0) + 1, char_index(s, span.end, 0, 0))

RECURSIVE char_containing(_, _, _, _)
\* The character of s whose bytes include byte offset b (b < str_len(s)),
\* with the byte range it occupies; i characters, off bytes, lie before it.
char_containing(s, b, i, off) ==
    IF b < off + len_utf8(s[i + 1])
    THEN [ch |-> s[i + 1], start |-> off, end |-> off + len_utf8(s[i + 1])]
    ELSE char_containing(s, b, i + 1, off + len_utf8(s[i + 1]))

\* The text as a str slice panic shows it: the longest prefix of at most 256
\* bytes that ends on a character boundary, followed by "[...]" when the
\* text is longer. Characters are written as their scalar values.
slice_error_text(s) ==
    LET fits == {k \in 0..Len(s) : str_len(SubSeq(s, 1, k)) <= 256}
        n == CHOOSE k \in fits : \A j \in fits : j <= k
    IN  ToString(SubSeq(s, 1, n)) \o (IF n < Len(s) THEN "[...]" ELSE "")

\* The message of the panic of &s[begin..end] on a span that is not a slice
\* of s, in the order the slice checks them: start out of bounds, end out of
\* bounds, ends out of order, start inside a character, end inside a
\* character. The character and the text are written as scalar values (the
\* panic prints the character quoted and the text between backquotes).
slice_error_at(s, which, index) ==
    With(char_containing(s, index, 0, 0), LAMBDA c :
        which \o " byte index " \o ToString(index)
            \o " is not a char boundary; it is inside " \o ToString(c.ch)
            \o " (bytes " \o ToString(c.start) \o ".." \o ToString(c.end)
            \o ") of " \o slice_error_text(s))

slice_error_fail(s, begin, end) ==
    IF begin > str_len(s)
    THEN "start byte index " \o ToString(begin) \o " is out of bounds of "
             \o slice_error_text(s)
    ELSE IF end > str_len(s)
    THEN "end byte index " \o ToString(end) \o " is out of bounds of "
             \o slice_error_text(s)
    ELSE IF begin > end
    THEN "begin > end (" \o ToString(begin) \o " > " \o ToString(end)
             \o ") when slicing " \o slice_error_text(s)
    ELSE IF char_index(s, begin, 0, 0) < 0
    THEN slice_error_at(s, "start", begin)
    ELSE slice_error_at(s, "end", end)

\* Parser::token_at: one token holding text[span].
token_at(p, kind, span) ==
    IF Failed(p) THEN p
    ELSE IF ~span_ok(p, span)
    THEN panic(p, slice_error_fail(p.text, span.start, span.end))
    ELSE [p EXCEPT !.children = Append(@, Tok(kind, str_slice(p.text, span)))]

\* Parser::get: &self.text[span]; it panics on a span that is no valid slice
\* and then has no value (v is empty and unused).
get(p, span) ==
    IF Failed(p) THEN [p |-> p, v |-> <<>>]
    ELSE IF ~span_ok(p, span)
    THEN [p |-> panic(p, slice_error_fail(p.text, span.start, span.end)), v |-> <<>>]
    ELSE [p |-> p, v |-> str_slice(p.text, span)]

\* Parser::token: the token from start to the cursor.
token(p, kind, start) == token_at(p, kind, Span(start, pos(p)))

\* Parser::marker
marker(p) == [pos |-> pos(p), checkpoint |-> Len(p.children)]

\* Parser::node_at: start_node_at(checkpoint) then finish_node(): the
\* siblings emitted since the marker become the children of one new node.
node_at(p, m, kind) ==
    IF Failed(p) THEN p
    ELSE IF m.checkpoint > Len(p.children)
         THEN panic(p, "checkpoint no longer valid, was finish_node called early?")
    ELSE IF p.parents # <<>> /\ m.checkpoint < p.parents[Len(p.parents)].first_child
         THEN panic(p, "checkpoint no longer valid, was an unmatched start_node_at called?")
    ELSE [p EXCEPT !.children =
              Append(SubSeq(@, 1, m.checkpoint),
                     Node(kind, SubSeq(@, m.checkpoint + 1, Len(@))))]

RECURSIVE error_loop(_, _)
\* The recovery loop of Parser::error.
error_loop(p, recover_pred) ==
    With(is(p, recover_pred), LAMBDA r :
        IF r.v THEN r.p
        ELSE With(is_end_of_input(r.p), LAMBDA e :
                 IF e.v THEN e.p ELSE error_loop(bump(e.p), recover_pred)))

\* The end of Parser::error: the Error token and the diagnostic over span.
error_emit(q, span, message) ==
    With(token_at(q, "Error", span), LAMBDA t :
        IF Failed(t) THEN t
        ELSE [t EXCEPT !.diagnostics = Append(@, Diagnostic_new(span, "Error", message))])

\* error with the Error token cut at the cursor of the call: the prefix
\* that the caller had consumed since start is left out of the token.
error_from_cursor(p, start, message, recover_pred) ==
    With(error_loop(p, recover_pred), LAMBDA q :
        error_emit(q, Span(pos(p), pos(q)), message))

\* error with the diagnostic's span taken before the recovery loop.
error_span_before_recovery(p, start, message, recover_pred) ==
    With(error_loop(p, recover_pred), LAMBDA q :
        With(token_at(q, "Error", Span(start, pos(q))), LAMBDA t :
            IF Failed(t) THEN t
            ELSE [t EXCEPT !.diagnostics =
                      Append(@, Diagnostic_new(Span(start, pos(p)), "Error", message))]))

\* Parser::error: skip to the recovery point, then one Error token from
\* start to the cursor and one diagnostic with the same span.
error(p, start, message, recover_pred) ==
    With(error_loop(p, recover_pred), LAMBDA q :
        error_emit(q, Span(start, pos(q)), message))

\* Parser::finish: close Root and take the tree and the diagnostics.
finish(p) ==
    LET first == p.parents[Len(p.parents)].first_child
        kind == p.parents[Len(p.parents)].kind
        children == Append(SubSeq(p.children, 1, first),
                           Node(kind, SubSeq(p.children, first + 1, Len(p.children))))
    IN  [node |-> children[1], errors |-> p.diagnostics]

\* ----------------------------------------------------------------- grammar

\* A loop iteration that leaves the cursor where it was repeats for ever,
\* since the loop's condition and body read nothing but the cursor; each
\* such iteration calls peek(), so a debug build ends in the guard's panic.
stalled(p) == panic(p, "detected infinite loop in parser")

\* Parser::peek_skip_inline_separator: the first character at or after the
\* cursor that is not white space (the guard does not count this look).
peek_skip_inline_separator(p) ==
    With({i \in (p.idx + 1)..Len(p.text) : ~is_whitespace(p.text[i])}, LAMBDA rest :
        IF rest = {} THEN None
        ELSE p.text[CHOOSE i \in rest : \A j \in rest : i <= j])

\* Parser::is_inline_separator
is_inline_separator(p) ==
    IF is_start_of_line(p) THEN [p |-> p, v |-> TRUE] ELSE is(p, "is_whitespace")

\* Parser::inline_separator: white space, as one token unless empty.
inline_separator(p) ==
    With(is_inline_separator(p), LAMBDA a :
        IF ~a.v THEN panic(a.p, "assertion failed: self.is_inline_separator()")
        ELSE With(eat_while(a.p, "is_whitespace"), LAMBDA separator :
                 IF separator.v.start # separator.v.end
                 THEN token(separator.p, "InlineSeparator", separator.v.start)
                 ELSE separator.p))

\* try_inline_separator that returns whether white space was consumed.
try_inline_separator_consumed(p) ==
    With(is_inline_separator(p), LAMBDA r :
        IF r.v
        THEN With(inline_separator(r.p), LAMBDA q : [p |-> q, v |-> q.idx > p.idx])
        ELSE [p |-> r.p, v |-> FALSE])

\* Parser::try_inline_separator
try_inline_separator(p) ==
    With(is_inline_separator(p), LAMBDA r :
        IF r.v THEN [p |-> inline_separator(r.p), v |-> TRUE]
        ELSE [p |-> r.p, v |-> FALSE])

\* line_break that takes a second character after '\r' without looking.
line_break_two_bumps(p) ==
    With(is(p, "is_break"), LAMBDA a :
        IF ~a.v THEN panic(a.p, "assertion failed: self.is(is_break)")
        ELSE With(peek(a.p), LAMBDA c :
                 token(IF c.v = CR THEN bump(bump(c.p)) ELSE bump(c.p),
                       "LineBreak", pos(a.p))))

\* Parser::line_break: "\r\n", "\r" or "\n" as one LineBreak token.
line_break(p) ==
    With(is(p, "is_break"), LAMBDA a :
        IF ~a.v THEN panic(a.p, "assertion failed: self.is(is_break)")
        ELSE With(peek(a.p), LAMBDA c :
                 IF c.v = CR
                 THEN With(peek(bump(c.p)), LAMBDA n :
                          token(IF n.v = LF THEN bump(n.p) ELSE n.p,
                                "LineBreak", pos(a.p)))
                 ELSE token(bump(c.p), "LineBreak", pos(a.p))))

\* Parser::comment_text
comment_text(p) ==
    With(marker(p), LAMBDA start :
    With(eat_char(p, HASH), LAMBDA r :
        IF ~r.v THEN error(r.p, start.pos, "expected '#'", "is_break")
        ELSE With(eat_while(token(r.p, "CommentToken", start.pos), "is_non_break"),
                  LAMBDA body :
                 node_at(token(body.p, "CommentBody", body.v.start), start,
                         "CommentText"))))

\* The test of the loop of Parser::line_comments.
line_comments_cond(p) ==
    With(is_inline_separator(p), LAMBDA a :
        [p |-> a.p,
         v |-> a.v /\ peek_skip_inline_separator(a.p) \in {None, HASH, CR, LF}])

\* line_comments' loop body without the return at the end of input.
line_comments_body_no_return(p) ==
    With(peek(inline_separator(p)), LAMBDA k :
        IF k.v = HASH THEN [p |-> comment_text(k.p), ret |-> FALSE]
        ELSE With(is(k.p, "is_break"), LAMBDA b :
                 IF b.v THEN [p |-> line_break(b.p), ret |-> FALSE]
                 ELSE [p |-> b.p, ret |-> FALSE]))

\* The body of the loop of Parser::line_comments; ret is its early return.
line_comments_body(p) ==
    With(peek(inline_separator(p)), LAMBDA k :
        IF k.v = HASH THEN [p |-> comment_text(k.p), ret |-> FALSE]
        ELSE With(is(k.p, "is_break"), LAMBDA b :
                 IF b.v THEN [p |-> line_break(b.p), ret |-> FALSE]
                 ELSE With(is_end_of_input(b.p), LAMBDA e :
                          [p |-> e.p, ret |-> e.v])))

RECURSIVE line_comments(_)
\* Parser::line_comments
line_comments(p) ==
    With(line_comments_cond(p), LAMBDA c :
        IF ~c.v THEN c.p
        ELSE With(line_comments_body(c.p), LAMBDA b :
                 IF b.ret THEN b.p
                 ELSE IF b.p.idx = p.idx THEN stalled(b.p)
                 ELSE line_comments(b.p)))

\* The end of Parser::separated_line_comments, from its test for a break.
end_of_line(p) ==
    With(is(p, "is_break"), LAMBDA b :
        IF b.v THEN line_comments(line_break(b.p))
        ELSE With(is_end_of_input(b.p), LAMBDA e :
                 IF e.v THEN e.p
                 ELSE IF ~is_start_of_line(e.p)
                      THEN error(e.p, pos(e.p), "expected end of line", "is_break")
                 ELSE line_comments(e.p)))

\* The separated comment of Parser::separated_line_comments.
separated_comment(p) ==
    With(try_inline_separator(p), LAMBDA t :
        IF ~t.v THEN t.p
        ELSE With(peek(t.p), LAMBDA h :
                 IF h.v = HASH THEN comment_text(h.p) ELSE h.p))

\* separated_line_comments with the start of the unseparated comment taken
\* after its '#' is consumed.
separated_line_comments_late_start(p) ==
    With(peek(p), LAMBDA k :
        IF k.v = HASH
        THEN With(bump(k.p), LAMBDA p0 :
                 error(p0, pos(p0), "comments must be separated from values", "is_break"))
        ELSE end_of_line(separated_comment(k.p)))

\* Parser::separated_line_comments
separated_line_comments(p) ==
    With(peek(p), LAMBDA k :
        IF k.v = HASH
        THEN error(bump(k.p), pos(k.p), "comments must be separated from values",
                   "is_break")
        ELSE end_of_line(separated_comment(k.p)))

\* The end of Parser::yaml_version, after the digits before the dot.
yaml_version_minor(major, start) ==
    With(eat_char(major, DOT), LAMBDA dot :
        IF ~dot.v
        THEN error(dot.p, start, "invalid YAML version: expected '.'", "is_separator")
        ELSE With(is(dot.p, "is_dec_digit"), LAMBDA d2 :
                 IF ~d2.v
                 THEN error(d2.p, start, "invalid YAML version: expected digit",
                            "is_separator")
                 ELSE token(eat_while(d2.p, "is_dec_digit").p, "YamlVersion", start)))

\* yaml_version that takes one digit, not a run of digits, before the dot.
yaml_version_one_digit(p) ==
    With(is(p, "is_dec_digit"), LAMBDA d1 :
        IF ~d1.v
        THEN error(d1.p, pos(p), "invalid YAML version: expected digit", "is_separator")
        ELSE yaml_version_minor(bump(d1.p), pos(p)))

\* Parser::yaml_version: digit+ '.' digit+ as one YamlVersion token.
yaml_version(p) ==
    With(is(p, "is_dec_digit"), LAMBDA d1 :
        IF ~d1.v
        THEN error(d1.p, pos(p), "invalid YAML version: expected digit", "is_separator")
        ELSE yaml_version_minor(eat_while(d1.p, "is_dec_digit").p, pos(p)))

\* The end of Parser::tag_handle when no word character follows the '!'.
tag_handle_short(p, start) ==
    With(eat_char(p, BANG), LAMBDA e :
        IF e.v THEN token(e.p, "SecondaryTagHandle", start)
        ELSE token(e.p, "PrimaryTagHandle", start))

\* tag_handle that emits a named handle as one token from its first '!'
\* instead of TagToken, NamedTagHandle, TagToken.
tag_handle_one_token(p) ==
    With(eat_char(p, BANG), LAMBDA b :
        IF ~b.v
        THEN error(b.p, pos(p), "invalid tag handle: expected '!'",
                   "is_flow_indicator_or_separator")
        ELSE With(is(b.p, "is_word_char"), LAMBDA w :
                 IF w.v
                 THEN With(eat_char(eat_while(w.p, "is_word_char").p, BANG), LAMBDA e :
                          IF ~e.v
                          THEN error(e.p, pos(p), "invalid tag handle: expected '!'",
                                     "is_flow_indicator_or_separator")
                          ELSE token(e.p, "NamedTagHandle", pos(p)))
                 ELSE tag_handle_short(w.p, pos(p))))

\* Parser::tag_handle: "!name!", "!!" or "!".
tag_handle(p) ==
    With(eat_char(p, BANG), LAMBDA b :
        IF ~b.v
        THEN error(b.p, pos(p), "invalid tag handle: expected '!'",
                   "is_flow_indicator_or_separator")
        ELSE With(is(b.p, "is_word_char"), LAMBDA w :
                 IF w.v
                 THEN With(eat_while(token(w.p, "TagToken", pos(p)), "is_word_char"),
                           LAMBDA name :
                      With(eat_char(token(name.p, "NamedTagHandle", name.v.start), BANG),
                           LAMBDA e :
                          IF ~e.v
                          THEN error(e.p, name.v.end, "invalid tag handle: expected '!'",
                                     "is_flow_indicator_or_separator")
                          ELSE token(e.p, "TagToken", name.v.end)))
                 ELSE tag_handle_short(w.p, pos(p))))

\* The end of Parser::tag_prefix: the run of URI characters as TagPrefix.
tag_prefix_run(p) ==
    With(eat_while(p, "is_uri_char"), LAMBDA prefix :
        token_at(prefix.p, "TagPrefix", prefix.v))

\* Parser::tag_prefix
tag_prefix(p) ==
    With(eat_char(p, BANG), LAMBDA b :
        IF b.v THEN tag_prefix_run(token(b.p, "TagToken", pos(p)))
        ELSE With(is(b.p, "is_uri_char"), LAMBDA u :
                 IF ~u.v
                 THEN error(u.p, pos(p), "invalid initial tag prefix character",
                            "is_separator")
                 ELSE With(is(u.p, "is_flow_indicator"), LAMBDA f :
                          IF f.v
                          THEN error(f.p, pos(p), "invalid initial tag prefix character",
                                     "is_separator")
                          ELSE tag_prefix_run(f.p))))

\* The test of the parameter loop of Parser::directive.
directive_parameter_cond(p) ==
    With(is_inline_separator(p), LAMBDA a :
    With(peek_skip_inline_separator(a.p), LAMBDA ch :
        [p |-> a.p, v |-> a.v /\ ch # None /\ ch # HASH /\ is_non_whitespace(ch)]))

\* The body of the parameter loop of Parser::directive.
directive_parameter(p) ==
    With(eat_while(inline_separator(p), "is_non_whitespace"), LAMBDA param :
        token(param.p, "DirectiveParameter", param.v.start))

RECURSIVE directive_parameters(_)
\* The parameter loop of Parser::directive.
directive_parameters(p) ==
    With(directive_parameter_cond(p), LAMBDA c :
        IF ~c.v THEN c.p
        ELSE With(directive_parameter(c.p), LAMBDA q :
                 IF q.idx = p.idx THEN stalled(q) ELSE directive_parameters(q)))

\* "YAML" and "TAG", the directive names the grammar knows.
NameYAML == <<89, 65, 77, 76>>
NameTAG == <<84, 65, 71>>

\* The end of Parser::directive: the rest of the line, then the Directive
\* node from the start marker.
directive_close(p, start) == node_at(separated_line_comments(p), start, "Directive")

\* The "YAML" arm of Parser::directive.
directive_yaml(p, start, inner) ==
    With(try_inline_separator(p), LAMBDA t :
        IF ~t.v THEN error(t.p, pos(t.p), "expected YAML version", "is_break")
        ELSE directive_close(node_at(yaml_version(t.p), inner, "YamlDirective"), start))

\* The "TAG" arm of Parser::directive.
directive_tag(p, start, inner) ==
    With(try_inline_separator(p), LAMBDA t :
        IF ~t.v THEN error(t.p, pos(t.p), "expected tag handle", "is_break")
        ELSE With(try_inline_separator(tag_handle(t.p)), LAMBDA h :
                 IF ~h.v THEN error(h.p, pos(h.p), "expected tag prefix", "is_break")
                 ELSE directive_close(node_at(tag_prefix(h.p), inner, "TagDirective"),
                                      start)))

\* The arm of Parser::directive for any other name.
directive_reserved(p, start, inner) ==
    directive_close(node_at(directive_parameters(p), inner, "ReservedDirective"), start)

\* Parser::directive
directive(p) ==
    With(marker(p), LAMBDA start :
    With(eat_char(p, PERCENT), LAMBDA pct :
        IF ~pct.v THEN error(pct.p, pos(pct.p), "expected '%'", "is_break")
        ELSE
        With(is(token(pct.p, "DirectiveToken", start.pos), "is_non_whitespace"), LAMBDA nw :
            IF ~nw.v THEN error(nw.p, pos(nw.p), "expected directive name", "is_break")
            ELSE
            With(marker(nw.p), LAMBDA inner :
            With(eat_while(nw.p, "is_non_whitespace"), LAMBDA name :
            With(token(name.p, "DirectiveName", name.v.start), LAMBDA p2 :
            With(get(p2, name.v), LAMBDA text :
                IF Failed(text.p) THEN text.p
                ELSE IF text.v = NameYAML THEN directive_yaml(text.p, start, inner)
                ELSE IF text.v = NameTAG THEN directive_tag(text.p, start, inner)
                ELSE directive_reserved(text.p, start, inner))))))))

\* ---------------------------------------------------------------- contexts

\* enum Context
Contexts == {"BlockIn", "BlockOut", "BlockKey", "FlowIn", "FlowOut", "FlowKey"}

\* Context::recovery_fn, the predicate by name
recovery_fn(context) ==
    IF context \in {"BlockIn", "BlockOut"} THEN "is_break" ELSE "is_flow_indicator"

\* Context::in_flow; the block contexts are unreachable!()
in_flow(context) ==
    CASE context \in {"FlowOut", "FlowIn"} -> "FlowIn"
      [] context \in {"BlockKey", "FlowKey"} -> "FlowKey"
      [] OTHER -> "unreachable"

\* is_plain_safe with FlowKey in the arm of FlowOut and BlockKey.
is_plain_safe_key_as_out(ch, context) ==
    CASE context \in {"FlowOut", "BlockKey", "FlowKey"} ->
             [unimplemented |-> FALSE, v |-> is_non_whitespace(ch)]
      [] context = "FlowIn" ->
             [unimplemented |-> FALSE,
              v |-> is_non_whitespace(ch) /\ ~is_flow_indicator(ch)]
      [] OTHER -> [unimplemented |-> TRUE, v |-> FALSE]

\* is_plain_safe: the answer, or unimplemented!() for the block contexts.
is_plain_safe(ch, context) ==
    CASE context \in {"FlowOut", "BlockKey"} ->
             [unimplemented |-> FALSE, v |-> is_non_whitespace(ch)]
      [] context \in {"FlowIn", "FlowKey"} ->
             [unimplemented |-> FALSE,
              v |-> is_non_whitespace(ch) /\ ~is_flow_indicator(ch)]
      [] OTHER -> [unimplemented |-> TRUE, v |-> FALSE]

\* Parser::peek_next: self.iter.clone().nth(2), the element of index 2 of
\* the characters that remain.
peek_next(p) == IF p.idx + 3 <= Len(p.text) THEN p.text[p.idx + 3] ELSE None

RECURSIVE skip_line_separator(_, _, _)
\* The loops of Parser::peek_skip_line_separator over s from index i; the
\* inner loop is the one that runs over a comment.
skip_line_separator(s, i, in_comment) ==
    IF i > Len(s) THEN None
    ELSE IF in_comment
         THEN IF is_non_break(s[i]) THEN skip_line_separator(s, i + 1, TRUE)
              ELSE IF is_separator(s[i]) THEN skip_line_separator(s, i + 1, FALSE)
              ELSE s[i]
    ELSE IF is_separator(s[i]) THEN skip_line_separator(s, i + 1, FALSE)
    ELSE IF s[i] = HASH THEN skip_line_separator(s, i + 1, TRUE)
    ELSE s[i]

\* Parser::peek_skip_line_separator
peek_skip_line_separator(p) == skip_line_separator(p.text, p.idx + 1, FALSE)

\* Parser::peek_skip_separator
peek_skip_separator(p, context) ==
    IF context \in {"BlockIn", "BlockOut", "FlowIn", "FlowOut"}
    THEN peek_skip_line_separator(p)
    ELSE peek_skip_inline_separator(p)

\* ----------------------------------------------------- separators, by context

RECURSIVE flow_line_prefix_loop(_, _, _, _)
\* The loop of Parser::flow_line_prefix with n spaces to go, then its end.
flow_line_prefix_loop(p, n, start, indent) ==
    IF n = 0 THEN try_inline_separator(p).p
    ELSE With(eat_char(p, 32), LAMBDA e :
             IF ~e.v
             THEN error(e.p, start,
                        "expected line to be indented " \o ToString(indent) \o " spaces",
                        "is_flow_indicator")
             ELSE flow_line_prefix_loop(e.p, n - 1, start, indent))

\* Parser::flow_line_prefix
flow_line_prefix(p, indent) == flow_line_prefix_loop(p, indent, pos(p), indent)

\* Parser::try_line_separator
try_line_separator(p, indent) ==
    IF peek_skip_inline_separator(p) \in {None, LF, CR, HASH}
    THEN [p |-> flow_line_prefix(separated_line_comments(p), indent), v |-> TRUE]
    ELSE try_inline_separator(p)

\* Parser::try_separator
try_separator(p, indent, context) ==
    IF context \in {"BlockIn", "BlockOut", "FlowIn", "FlowOut"}
    THEN try_line_separator(p, indent)
    ELSE try_inline_separator(p)

\* -------------------------------------------------------------- properties

\* Parser::tag_suffix
tag_suffix(p) ==
    With(is(p, "is_tag_char"), LAMBDA t :
        IF ~t.v
        THEN error(t.p, pos(t.p), "expected tag suffix", "is_flow_indicator_or_separator")
        ELSE With(eat_while(t.p, "is_tag_char"), LAMBDA suffix :
                 token_at(suffix.p, "TagSuffix", suffix.v)))

\* Parser::anchor_name
anchor_name(p) ==
    With(is(p, "is_anchor_char"), LAMBDA a :
        IF ~a.v
        THEN error(a.p, pos(a.p), "invalid anchor name character",
                   "is_flow_indicator_or_separator")
        ELSE With(eat_while(a.p, "is_anchor_char"), LAMBDA name :
                 token(name.p, "AnchorName", name.v.start)))

\* Parser::alias_node ('*' is 42)
alias_node(p) ==
    With(eat_char(p, 42), LAMBDA e :
        IF ~e.v
        THEN error(e.p, pos(e.p), "expected '*'", "is_flow_indicator_or_separator")
        ELSE node_at(anchor_name(token(e.p, "AliasToken", pos(p))), marker(p),
                     "AliasNode"))

\* Parser::anchor_property ('&' is 38); the message names '*' in the source.
anchor_property(p) ==
    With(eat_char(p, 38), LAMBDA e :
        IF ~e.v
        THEN error(e.p, pos(e.p), "expected '*'", "is_flow_indicator_or_separator")
        ELSE node_at(anchor_name(token(e.p, "AnchorToken", pos(p))), marker(p),
                     "AnchorProperty"))

\* The verbatim arm of Parser::tag_property, after "!<" ('>' is 62).
tag_property_verbatim(p, start) ==
    With(is(token(p, "VerbatimTagStart", start.pos), "is_uri_char"), LAMBDA u :
        IF ~u.v
        THEN error(u.p, pos(u.p), "invalid verbatim tag character",
                   "is_flow_indicator_or_separator")
        ELSE With(eat_while(u.p, "is_uri_char"), LAMBDA uri :
             With(eat_char(token(uri.p, "VerbatimTag", uri.v.start), 62), LAMBDA gt :
                 IF ~gt.v
                 THEN error(gt.p, pos(gt.p), "expected '>'",
                            "is_flow_indicator_or_separator")
                 ELSE node_at(token(gt.p, "VerbatimTagEnd", uri.v.end), start,
                              "TagProperty"))))

\* The handle of the named arm of Parser::tag_property: a NamedTagHandle
\* token, or an Error token and a diagnostic when the name is no word.
tag_property_handle(p, name_or_suffix) ==
    With(get(p, name_or_suffix), LAMBDA text :
        IF Failed(text.p) THEN text.p
        ELSE IF \A i \in 1..Len(text.v) : is_word_char(text.v[i])
        THEN token_at(text.p, "NamedTagHandle", name_or_suffix)
        ELSE error_emit(text.p, name_or_suffix, "invalid character in tag handle"))

\* The arm of Parser::tag_property for a tag character after the '!'.
tag_property_named(p, start) ==
    With(eat_while(p, "is_tag_char"), LAMBDA name_or_suffix :
    With(eat_char(name_or_suffix.p, BANG), LAMBDA e :
        IF e.v
        THEN node_at(
                 tag_suffix(
                     token(tag_property_handle(
                               token_at(e.p, "TagToken", Span(start.pos, pos(p))),
                               name_or_suffix.v),
                           "TagToken", name_or_suffix.v.end)),
                 start, "TagProperty")
        ELSE node_at(
                 token_at(token_at(e.p, "PrimaryTagHandle", Span(start.pos, pos(p))),
                          "TagSuffix", name_or_suffix.v),
                 start, "TagProperty")))

\* The arms of Parser::tag_property for "!!" and for a lone "!".
tag_property_short(p, start) ==
    With(eat_char(p, BANG), LAMBDA e :
        IF e.v
        THEN node_at(tag_suffix(token(e.p, "SecondaryTagHandle", start.pos)), start,
                     "TagProperty")
        ELSE node_at(token(e.p, "NonSpecificTag", start.pos), start, "TagProperty"))

\* Parser::tag_property ('<' is 60)
tag_property(p) ==
    With(eat_char(p, BANG), LAMBDA b :
        IF ~b.v
        THEN error(b.p, pos(p), "expected '!'", "is_flow_indicator_or_separator")
        ELSE With(eat_char(b.p, 60), LAMBDA lt :
                 IF lt.v THEN tag_property_verbatim(lt.p, marker(p))
                 ELSE With(is(lt.p, "is_tag_char"), LAMBDA t :
                          IF t.v THEN tag_property_named(t.p, marker(p))
                          ELSE tag_property_short(t.p, marker(p)))))

\* The second property of Parser::properties after a tag property: the
\* source calls tag_property here too.
properties_after_tag(p, indent, context) ==
    IF peek_skip_separator(p, context) = 38
    THEN With(try_separator(p, indent, context), LAMBDA s :
             IF s.v THEN tag_property(s.p) ELSE s.p)
    ELSE p

\* The second property of Parser::properties after an anchor property.
properties_after_anchor(p, indent, context) ==
    IF peek_skip_separator(p, context) = BANG
    THEN With(try_separator(p, indent, context), LAMBDA s :
             IF s.v THEN tag_property(s.p) ELSE s.p)
    ELSE p

\* Parser::properties
properties(p, indent, context) ==
    With(is_char(p, BANG), LAMBDA b :
        IF b.v THEN properties_after_tag(tag_property(b.p), indent, context)
        ELSE With(is_char(b.p, 38), LAMBDA a :
                 IF a.v
                 THEN properties_after_anchor(anchor_property(a.p), indent, context)
                 ELSE error(a.p, pos(a.p), "expected '!' or '&'", recovery_fn(context))))

\* -------------------------------------------------------------- flow nodes

\* Parser::flow_yaml_content: todo!()
flow_yaml_content(p, indent, context) == panic(p, "not yet implemented")

\* Parser::flow_sequence_entries: todo!()
flow_sequence_entries(p, indent, context) == panic(p, "not yet implemented")

\* Parser::flow_sequence ('[' is 91): the entries are todo!(), and for a
\* block context in_flow() is unreachable!() before them.
flow_sequence(p, indent, context) ==
    With(eat_char(p, 91), LAMBDA e :
        IF ~e.v THEN error(e.p, pos(e.p), "expected '['", recovery_fn(context))
        ELSE With(try_separator(token(e.p, "SequenceStart", pos(p)), indent, context),
                  LAMBDA s :
                 IF in_flow(context) = "unreachable"
                 THEN panic(s.p, "internal error: entered unreachable code")
                 ELSE flow_sequence_entries(s.p, indent, in_flow(context))))

\* Parser::flow_mapping ('{' is 123), todo!() after the MappingStart token
flow_mapping(p, indent, context) ==
    With(eat_char(p, 123), LAMBDA e :
        IF ~e.v THEN error(e.p, pos(e.p), "expected '{'", recovery_fn(context))
        ELSE panic(token(e.p, "MappingStart", pos(p)), "not yet implemented"))

\* Parser::single_quoted ('\'' is 39), todo!() after the SingleQuote token
single_quoted(p, indent, context) ==
    With(eat_char(p, 39), LAMBDA e :
        IF ~e.v THEN error(e.p, pos(e.p), "expected '''", recovery_fn(context))
        ELSE panic(token(e.p, "SingleQuote", pos(p)), "not yet implemented"))

\* Parser::double_quoted ('"' is 34), todo!() after the DoubleQuote token
double_quoted(p, indent, context) ==
    With(eat_char(p, 34), LAMBDA e :
        IF ~e.v THEN error(e.p, pos(e.p), "expected '\"'", recovery_fn(context))
        ELSE panic(token(e.p, "DoubleQuote", pos(p)), "not yet implemented"))

\* Parser::flow_json_content
flow_json_content(p, indent, context) ==
    With(peek(p), LAMBDA k :
        CASE k.v = 91 -> flow_sequence(k.p, indent, context)
          [] k.v = 123 -> flow_mapping(k.p, indent, context)
          [] k.v = 39 -> single_quoted(k.p, indent, context)
          [] k.v = 34 -> double_quoted(k.p, indent, context)
          [] OTHER -> error(k.p, pos(k.p), "expected one of '[', '{', '\"' or '''",
                            recovery_fn(context)))

\* The arm that the match of Parser::flow_content takes on ch, the value of
\* peek(): "yaml", "json", "invalid", or "unimplemented" when the guard of
\* the second arm ends in is_plain_safe's unimplemented!().
\* '?' is 63, ':' is 58, '-' is 45.
flow_content_arm(p, ch, context) ==
    IF ch # None /\ is_non_whitespace(ch) /\ ~is_indicator(ch) THEN "yaml"
    ELSE IF ch \in {63, 58, 45} /\ peek_next(p) # None
              /\ is_plain_safe(peek_next(p), context).unimplemented
         THEN "unimplemented"
    ELSE IF ch \in {63, 58, 45} /\ peek_next(p) # None
              /\ is_plain_safe(peek_next(p), context).v
         THEN "yaml"
    ELSE IF ch \in {91, 123, 39, 34} THEN "json"
    ELSE "invalid"

\* Parser::flow_content
flow_content(p, indent, context) ==
    With(peek(p), LAMBDA k :
    With(flow_content_arm(k.p, k.v, context), LAMBDA arm :
        CASE arm = "yaml" ->
                 node_at(flow_yaml_content(k.p, indent, context), marker(p), "FlowContent")
          [] arm = "json" ->
                 node_at(flow_json_content(k.p, indent, context), marker(p), "FlowContent")
          [] arm = "unimplemented" -> panic(k.p, "not implemented")
          [] OTHER -> error(k.p, pos(k.p), "invalid flow content", recovery_fn(context))))

\* The arm of Parser::flow_node for a node that begins with properties.
flow_node_properties(p, indent, context) ==
    With(try_separator(properties(p, indent, context), indent, context), LAMBDA s :
        IF s.v THEN flow_content(s.p, indent, context) ELSE s.p)

\* Parser::flow_node ('*' is 42, '&' is 38)
flow_node(p, indent, context) ==
    With(is_char(p, 42), LAMBDA a :
        IF a.v THEN node_at(alias_node(a.p), marker(p), "FlowNode")
        ELSE With(peek(a.p), LAMBDA k :
                 IF k.v \in {BANG, 38}
                 THEN node_at(flow_node_properties(k.p, indent, context), marker(p),
                              "FlowNode")
                 ELSE node_at(flow_content(k.p, indent, context), marker(p), "FlowNode")))

\* -------------------------------------------------------- reading the tree

RECURSIVE leaves(_), leaves_of(_)
\* The tokens under an element, in document order.
leaves(e) == IF e.token THEN <<e>> ELSE leaves_of(e.children)
leaves_of(es) == IF es = <<>> THEN <<>> ELSE leaves(Head(es)) \o leaves_of(Tail(es))

RECURSIVE concat_text(_)
\* The texts of a sequence of tokens, joined.
concat_text(ts) == IF ts = <<>> THEN <<>> ELSE Head(ts).text \o concat_text(Tail(ts))

\* SyntaxNode::to_string: the text of every leaf, in document order.
to_string(node) == concat_text(leaves(node))

\* The source range of the i-th token of ts, counting from byte offset 0.
text_range(ts, i) ==
    LET start == str_len(concat_text(SubSeq(ts, 1, i - 1)))
    IN  Span(start, start + str_len(ts[i].text))

\* The children of node that have the given kind, in order.
children_of_kind(node, kind) == SelectSeq(node.children, LAMBDA c : c.kind = kind)

\* ------------------------------------------------------------------ inputs

\* The characters a free suffix is made of:
\* '%', ' ', '\n', '\r', '#', '!', '1', '.', 'a'.
TailAlphabet == {PERCENT, 32, LF, CR, HASH, BANG, 49, DOT, 97}

\* Every string over TailAlphabet of at most MaxTail characters.
Tails == UNION {[1..n -> TailAlphabet] : n \in 0..MaxTail}

\* Directive stems; a free suffix follows each.
Stems ==
    { <<>>,
      <<37, 89, 65, 77, 76>>,                           \* %YAML
      <<37, 89, 65, 77, 76, 32>>,                       \* %YAML_
      <<37, 89, 65, 77, 76, 32, 49, 46, 50>>,           \* %YAML 1.2
      <<37, 89, 65, 77, 76, 9, 32, 49, 48, 46, 50>>,    \* %YAML\t 10.2
      <<37, 89, 65, 77, 76, 32, 49, 46, 50, 32, 35, 3626>>, \* %YAML 1.2 #ส
      <<37, 84, 65, 71>>,                               \* %TAG
      <<37, 84, 65, 71, 32>>,                           \* %TAG_
      <<37, 84, 65, 71, 32, 33, 121, 45, 49, 33, 32>>,  \* %TAG !y-1!_
      <<37, 84, 65, 71, 32, 33, 121, 33, 32, 116, 58>>, \* %TAG !y! t:
      <<37, 84, 65, 71, 32, 33, 121, 33, 32, 44>>,      \* %TAG !y! ,
      <<37, 84, 65, 71, 32, 33, 121, 33, 32, 123>>,     \* %TAG !y! {
      <<37, 84, 65, 71, 32, 33, 121, 33, 32, 3616>>,    \* %TAG !y! ภ
      <<37, 68>>,                                       \* %D
      <<37, 68, 32, 3616, 32>>,                         \* %D ภ_
      <<37, 68, 9, 1>>,                                 \* %D\t\x01
      <<37, 68, 10, 35, 1>>,                            \* %D\n#\x01
      <<65279>>,                                        \* U+FEFF
      <<65279, 37, 89, 65, 77, 76, 32, 49, 46, 50>> }   \* U+FEFF %YAML 1.2

\* The texts parsed: a stem and a free suffix.
TextInputs == {s \o t : s \in Stems, t \in Tails}

\* The bytes the encoding detector looks for, '%' and 'a'.
ByteAlphabet == {0, 37, 97, 187, 191, 239, 254, 255}

\* Every byte string over ByteAlphabet of at most MaxBytes bytes.
RawInputs == UNION {[1..n -> ByteAlphabet] : n \in 0..MaxBytes}

\* The byte inputs of parse: UTF-8 files of the texts, and raw byte strings.
Inputs == {str_bytes(t) : t \in TextInputs} \cup RawInputs

\* ----------------------------------------------------------- state machine

VARIABLES
    bytes,      \* the argument of parse
    pc,         \* where parse is: "start", "new", "parsed", "done", "panicked"
    parser,     \* <<>> before Parser::new, then <<the parser>>
    result      \* <<>> before parse returns, then <<the Parse value>>

vars == <<bytes, pc, parser, result>>

Init ==
    /\ bytes \in Inputs
    /\ pc = "start"
    /\ parser = <<>>
    /\ result = <<>>

\* parse, when decode fails: an empty Error root and one diagnostic.
ParseDecodeError ==
    /\ pc = "start"
    /\ ~decode(bytes).ok
    /\ result' = <<[node |-> Node("Error", <<>>),
                    errors |-> <<Diagnostic_new(Span(0, 0), "Error",
                                     decode_error_message(decode(bytes).err))>>]>>
    /\ pc' = "done"
    /\ UNCHANGED <<bytes, parser>>

\* parse that goes on to the parser whatever decode returned.
ParseNewUnchecked ==
    /\ pc = "start"
    /\ parser' = <<Parser_new(decode(bytes).text)>>
    /\ pc' = "new"
    /\ UNCHANGED <<bytes, result>>

\* parse, when decode succeeds: Parser::new on the decoded text.
ParseNew ==
    /\ pc = "start"
    /\ decode(bytes).ok
    /\ parser' = <<Parser_new(decode(bytes).text)>>
    /\ pc' = "new"
    /\ UNCHANGED <<bytes, result>>

\* parser.directive()
ParseDirective ==
    /\ pc = "new"
    /\ parser' = <<directive(parser[1])>>
    /\ pc' = IF Failed(parser'[1]) THEN "panicked" ELSE "parsed"
    /\ UNCHANGED <<bytes, result>>

\* parser.finish()
ParseFinish ==
    /\ pc = "parsed"
    /\ result' = <<finish(parser[1])>>
    /\ pc' = "done"
    /\ UNCHANGED <<bytes, parser>>

Next == ParseDecodeError \/ ParseNew \/ ParseDirective \/ ParseFinish

Spec == Init /\ [][Next]_vars

\* ------------------------------------------------------ reading the states

\* The parser, the decoded text, and the Parse value, where they exist.
P == parser[1]
Decoded == decode(bytes)
Tree == result[1].node
Errors == result[1].errors

\* directive() has run on a fresh parser and the parser is finished.
Finished == pc = "done" /\ parser # <<>>

\* The scanner position, 0 while there is no parser.
ScannerPos == IF parser = <<>> THEN 0 ELSE pos(P)

\* The leaves of the tree and, among them, the places of the Error tokens.
Leaves == leaves(Tree)
ErrorPlaces ==
    SelectSeq([i \in 1..Len(Leaves) |-> i], LAMBDA i : Leaves[i].kind = "Error")

\* The tokens of a given kind among the leaves, in order.
LeavesOfKind(kind) == SelectSeq(Leaves, LAMBDA t : t.kind = kind)

RECURSIVE run_end(_, _, _)
\* The index after the longest run of pred characters of s that starts at i.
run_end(s, i, pred) ==
    IF i <= Len(s) /\ test(pred, s[i]) THEN run_end(s, i + 1, pred) ELSE i

RECURSIVE line_end(_, _)
\* The index of the first line break of s at or after i, or Len(s) + 1.
line_end(s, i) ==
    IF i <= Len(s) /\ ~is_break(s[i]) THEN line_end(s, i + 1) ELSE i

\* "%YAML", white space, digits '.' digits: where the version begins (from)
\* and the index after it (to), when the text has that form.
YamlForm(t) ==
    LET from == run_end(t, 6, "is_whitespace")
        dot == run_end(t, from, "is_dec_digit")
        to == run_end(t, dot + 1, "is_dec_digit")
    IN  [ok |-> /\ Len(t) >= 5
                /\ SubSeq(t, 1, 5) = <<PERCENT>> \o NameYAML
                /\ from > 6
                /\ dot > from
                /\ dot <= Len(t) /\ t[dot] = DOT
                /\ to > dot + 1,
         from |-> from, to |-> to]

\* The version is followed by the end of input, a line break, or white
\* space and a '#' comment that runs to the end of its line.
YamlEnding(t, to) ==
    \/ to > Len(t)
    \/ is_break(t[to])
    \/ LET h == run_end(t, to, "is_whitespace")
       IN  /\ h > to
           /\ h <= Len(t) /\ t[h] = HASH
           /\ LET e == run_end(t, h, "is_non_break")
              IN  e > Len(t) \/ is_break(t[e])

\* "%TAG", white space, '!' word characters '!', white space, then a
\* non-empty run of URI characters to the end of input that does not start
\* with a flow indicator: the name is t[name..bang-1], the prefix t[prefix..].
TagForm(t) ==
    LET h == run_end(t, 5, "is_whitespace")
        bang == run_end(t, h + 1, "is_word_char")
        prefix == run_end(t, bang + 1, "is_whitespace")
    IN  [ok |-> /\ Len(t) >= 4
                /\ SubSeq(t, 1, 4) = <<PERCENT>> \o NameTAG
                /\ h > 5
                /\ h <= Len(t) /\ t[h] = BANG
                /\ bang > h + 1
                /\ bang <= Len(t) /\ t[bang] = BANG
                /\ prefix > bang + 1
                /\ prefix <= Len(t)
                /\ ~is_flow_indicator(t[prefix])
                /\ run_end(t, prefix, "is_uri_char") = Len(t) + 1,
         handle |-> h, name |-> h + 1, bang |-> bang, prefix |-> prefix]

\* ------------------------------------------------------------------ claims

\* C1: for every input that decodes, the tree parse returns is lossless:
\* the texts of its leaves, in document order, are the whole decoded text.
C1_ParseLossless ==
    (pc = "done" /\ Decoded.ok) => to_string(Tree) = Decoded.text

\* C2: after directive() on a fresh parser and finish(), the texts of the
\* leaves, in document order, are text[0..pos], pos being the scanner
\* position at which directive() returned.
C2_DirectiveLossless ==
    Finished => /\ span_ok(P, Span(0, pos(P)))
                /\ to_string(Tree) = str_slice(P.text, Span(0, pos(P)))

\* C2 witness: an error-recovery path that stopped inside the text.
C2_Witness ==
    /\ Finished
    /\ Errors # <<>>
    /\ 0 < pos(P) /\ pos(P) < str_len(P.text)
    /\ to_string(Tree) = str_slice(P.text, Span(0, pos(P)))

\* How far parse has come.
Stage(at) ==
    CASE at = "start" -> 1
      [] at = "new" -> 2
      [] at = "parsed" -> 3
      [] at = "done" -> 4
      [] OTHER -> 0

\* One step of parse: it brings parse nearer to its return, the scanner
\* position does not decrease, and no loop of the grammar has run an
\* iteration that consumed nothing.
C3_Step ==
    /\ Stage(pc') > Stage(pc)
    /\ ScannerPos' >= ScannerPos
    /\ parser' # <<>> => P'.failure # "detected infinite loop in parser"

\* C3: parse terminates: every loop of the directive grammar consumes a
\* character per iteration or exits, the scanner position never decreases,
\* and parse is always at a stage that has a next step, or has returned.
C3_ParseTerminates ==
    /\ [][C3_Step]_vars
    /\ [](pc \in {"start", "new", "parsed", "done"})

\* C3 witness: the line_comments loop ran more than once and left by its
\* end-of-input return.
C3_Witness ==
    /\ Finished
    /\ Len(LeavesOfKind("LineBreak")) >= 3
    /\ P.idx = Len(P.text)

\* C4: parse reaches no internal failure: no bump() at end of input, no trip
\* of the peek guard, no node_at on a marker that is no longer valid, no
\* failed assertion or slice.
C4_NoInternalFailure ==
    /\ pc # "panicked"
    /\ parser # <<>> => (~Failed(P) /\ P.peek_count <= PeekLimit + 1)

\* C4 witness: error recovery ran to the end of a non-empty input, where a
\* further bump() would be the failure.
C4_Witness ==
    /\ Finished
    /\ ~Failed(P)
    /\ Errors # <<>>
    /\ P.idx = Len(P.text) /\ P.idx > 2
    /\ Leaves[Len(Leaves)].kind = "Error"

\* C5: when decode fails, no parser is constructed, and parse returns an
\* Error root without children and one diagnostic, Error severity, span 0..0.
C5_DecodeFailure ==
    ~Decoded.ok =>
        /\ parser = <<>>
        /\ pc = "done" =>
            /\ Tree = Node("Error", <<>>)
            /\ Len(Errors) = 1
            /\ Errors[1].severity = "Error"
            /\ Errors[1].span = Span(0, 0)

\* C5 witness: parse has returned on an input that does not decode.
C5_Witness == pc = "done" /\ ~Decoded.ok /\ Len(bytes) > 2

\* C6: after directive(), diagnostics and Error tokens correspond one to
\* one: as many diagnostics as Error tokens, the i-th diagnostic of Error
\* severity and with the source range of the i-th Error token as its span.
C6_DiagnosticsMatchErrorTokens ==
    Finished =>
        /\ Len(Errors) = Len(ErrorPlaces)
        /\ \A i \in 1..Len(Errors) :
            /\ Errors[i].severity = "Error"
            /\ Errors[i].span = text_range(Leaves, ErrorPlaces[i])

\* C6 witness: two errors in one directive, the second one not empty.
C6_Witness ==
    /\ Finished
    /\ Len(Errors) = 2
    /\ Errors[1].span.start > 0
    /\ Errors[2].span.start < Errors[2].span.end

\* The shape Root -> Directive, and the Directive's only node of a kind.
OneDirective == Len(Tree.children) = 1 /\ Tree.children[1].kind = "Directive"
DirectiveNode == Tree.children[1]
Inner(kind) == children_of_kind(DirectiveNode, kind)

\* C7: "%YAML", white space, digits '.' digits, then the end of input, a
\* line break or a separated comment gives Root -> Directive ->
\* YamlDirective holding exactly one YamlVersion token, whose text is the
\* whole version, and no diagnostic.
C7_YamlDirective ==
    (Finished /\ YamlForm(P.text).ok /\ YamlEnding(P.text, YamlForm(P.text).to)) =>
        /\ OneDirective
        /\ Len(Inner("YamlDirective")) = 1
        /\ LET versions == children_of_kind(Inner("YamlDirective")[1], "YamlVersion")
           IN  /\ Len(versions) = 1
               /\ versions[1].token
               /\ versions[1].text =
                      SubSeq(P.text, YamlForm(P.text).from, YamlForm(P.text).to - 1)
        /\ Len(LeavesOfKind("YamlVersion")) = 1
        /\ Errors = <<>>

\* C7 witness: a version of more than one digit before the dot, followed by
\* a separated comment.
C7_Witness ==
    /\ Finished
    /\ YamlForm(P.text).ok /\ YamlEnding(P.text, YamlForm(P.text).to)
    /\ Len(LeavesOfKind("YamlVersion")) = 1
    /\ Len(LeavesOfKind("YamlVersion")[1].text) > 3
    /\ Len(LeavesOfKind("CommentToken")) = 1

\* C8: "%YAML <version>" directly followed by '#' gives exactly one
\* diagnostic and one Error token, from the '#' up to the next line break or
\* the end of input; the YamlVersion token is still there, and so is the
\* Directive node, which holds the Error token.
C8_UnseparatedComment ==
    LET f == YamlForm(P.text)
    IN  (Finished /\ f.ok /\ f.to <= Len(P.text) /\ P.text[f.to] = HASH) =>
            /\ Len(Errors) = 1
            /\ Len(LeavesOfKind("Error")) = 1
            /\ LeavesOfKind("Error")[1].text =
                   SubSeq(P.text, f.to, line_end(P.text, f.to) - 1)
            /\ Len(LeavesOfKind("YamlVersion")) = 1
            /\ LeavesOfKind("YamlVersion")[1].text = SubSeq(P.text, f.from, f.to - 1)
            /\ OneDirective
            /\ Len(Inner("Error")) = 1
            /\ Inner("Error")[1].token

\* C8 witness: the unseparated comment has a body and a line break after it.
C8_Witness ==
    LET f == YamlForm(P.text)
    IN  /\ Finished
        /\ f.ok /\ f.to <= Len(P.text) /\ P.text[f.to] = HASH
        /\ line_end(P.text, f.to) > f.to + 1
        /\ line_end(P.text, f.to) <= Len(P.text)
        /\ Len(Inner("Error")) = 1

\* C9, as claimed: "%TAG !<name>! <prefix>" gives Directive -> TagDirective
\* with a NamedTagHandle token whose text is the whole handle "!<name>!" and
\* a TagPrefix token whose text is the prefix, and no diagnostic.
C9_WholeHandleToken ==
    LET f == TagForm(P.text)
    IN  (Finished /\ f.ok) =>
            /\ OneDirective
            /\ Len(Inner("TagDirective")) = 1
            /\ LET td == Inner("TagDirective")[1]
               IN  /\ Len(children_of_kind(td, "NamedTagHandle")) = 1
                   /\ children_of_kind(td, "NamedTagHandle")[1].text =
                          SubSeq(P.text, f.handle, f.bang)
                   /\ Len(children_of_kind(td, "TagPrefix")) = 1
                   /\ children_of_kind(td, "TagPrefix")[1].text =
                          SubSeq(P.text, f.prefix, Len(P.text))
            /\ Errors = <<>>

\* C9, amended: "%TAG !<name>! <prefix>" gives Directive -> TagDirective
\* whose children are DirectiveName, InlineSeparator, TagToken "!",
\* NamedTagHandle with the name alone, TagToken "!", InlineSeparator, then,
\* when the prefix starts with '!', a TagToken "!", and last a TagPrefix
\* token with the prefix less that leading '!'; no diagnostic.
C9_HandleTokens ==
    LET f == TagForm(P.text)
        local == P.text[f.prefix] = BANG
        kinds == <<"DirectiveName", "InlineSeparator", "TagToken", "NamedTagHandle",
                   "TagToken", "InlineSeparator">>
                 \o (IF local THEN <<"TagToken">> ELSE <<>>) \o <<"TagPrefix">>
    IN  (Finished /\ f.ok) =>
            /\ OneDirective
            /\ Len(Inner("TagDirective")) = 1
            /\ LET td == Inner("TagDirective")[1].children
               IN  /\ [i \in 1..Len(td) |-> td[i].kind] = kinds
                   /\ \A i \in 1..Len(td) : td[i].token
                   /\ td[3].text = <<BANG>>
                   /\ td[4].text = SubSeq(P.text, f.name, f.bang - 1)
                   /\ td[5].text = <<BANG>>
                   /\ local => td[7].text = <<BANG>>
                   /\ td[Len(td)].text =
                          SubSeq(P.text, f.prefix + (IF local THEN 1 ELSE 0), Len(P.text))
            /\ Errors = <<>>

\* C9 witness: a name of several word characters and a prefix that starts
\* with '!' and goes on.
C9_Witness ==
    LET f == TagForm(P.text)
    IN  /\ Finished
        /\ f.ok
        /\ f.bang - f.name >= 3
        /\ P.text[f.prefix] = BANG
        /\ Len(P.text) > f.prefix
        /\ Len(LeavesOfKind("TagPrefix")) = 1

\* The bytes begin with the UTF-8 byte-order mark and go on.
StartsWithUtf8Bom == Len(bytes) > 3 /\ SubSeq(bytes, 1, 3) = <<239, 187, 191>>

\* C10: bytes that begin with EF BB BF and go on are decoded as UTF-8, and
\* the tree has a leaf of its own for the byte-order mark, before the
\* tokens of the content.
C10_BomToken ==
    (pc = "done" /\ StartsWithUtf8Bom /\ Decoded.ok) =>
        /\ decode_arm(bytes) = "utf8"
        /\ Leaves # <<>>
        /\ Leaves[1].text = <<65279>>

\* What a decoder returned, as parse shows it: the text, or the message of
\* the error.
Outcome(r) ==
    IF r.ok THEN <<"ok", r.text>> ELSE <<"error", decode_error_message(r.err)>>

\* What decode returned in this run, read from the parser's text or from
\* the diagnostic of the failure.
DecodeOutcome ==
    IF parser # <<>> THEN <<"ok", P.text>> ELSE <<"error", Errors[1].message>>

\* The bytes match a four-byte pattern of the big-endian 32-bit encoding,
\* or else one of the little-endian 32-bit encoding.
FourByteBE == matches(bytes, <<0, 0, 254, 255>>) \/ matches(bytes, <<0, 0, 0, -1>>)
FourByteLE ==
    /\ ~FourByteBE
    /\ matches(bytes, <<255, 254, 0, 0>>) \/ matches(bytes, <<-1, 0, 0, 0>>)

\* No byte-order mark, no four-byte pattern, a non-zero first byte and a
\* zero second byte.
SecondByteZero ==
    /\ Len(bytes) >= 2 /\ bytes[1] # 0 /\ bytes[2] = 0
    /\ ~FourByteBE /\ ~FourByteLE

\* The four-byte patterns win over the two-byte patterns they overlap.
FourByteFirst ==
    /\ FourByteBE => DecodeOutcome = Outcome(decode_utf32_be(bytes))
    /\ FourByteLE => DecodeOutcome = Outcome(decode_utf32_le(bytes))

\* C11, as claimed: without a byte-order mark or a four-byte pattern, a
\* zero second byte after a non-zero first byte selects the big-endian
\* 16-bit decoder; four-byte patterns are tried before two-byte patterns.
C11_SecondByteZeroBigEndian ==
    pc # "start" =>
        /\ SecondByteZero => DecodeOutcome = Outcome(decode_utf16_be(bytes))
        /\ FourByteFirst

\* C11: without a byte-order mark or a four-byte pattern, a zero second
\* byte after a non-zero first byte selects the little-endian 16-bit
\* decoder; four-byte patterns are tried before two-byte patterns.
C11_SecondByteZeroLittleEndian ==
    pc # "start" =>
        /\ SecondByteZero => DecodeOutcome = Outcome(decode_utf16_le(bytes))
        /\ FourByteFirst

\* C11 witness: 'a' 00 '%' 00 has been decoded as "a%".
C11_Witness ==
    /\ pc = "new" /\ SecondByteZero
    /\ bytes = <<97, 0, 37, 0>>
    /\ P.text = <<97, 37>>


\* ------------------------------------------------- the grammar's other methods

\* The methods that parse() does not reach yet are driven one call at a
\* time on a fresh parser, after at most one property that takes the cursor
\* into a line. In these runs result holds <<the call>>: the method, its
\* arguments, the parser it was called on and the value it returned.

\* The largest indent passed to a method.
MaxIndent == 1

\* The longest free suffix of a text.
MaxUnitTail == 2

\* The characters of a free suffix: ' ', '\n', '#', '!', '&', 'a', ',', '-'.
UnitAlphabet == {32, LF, HASH, BANG, 38, 97, 44, 45}

\* Every string over UnitAlphabet of at most MaxUnitTail characters.
UnitTails == UNION {[1..n -> UnitAlphabet] : n \in 0..MaxUnitTail}

\* The stems: nothing, "&a", "!a", "&a ", "!a ", "\n".
UnitStems ==
    {<<>>, <<38, 97>>, <<BANG, 97>>, <<38, 97, 32>>, <<BANG, 97, 32>>, <<LF>>}

\* The texts parsed in these runs.
UnitTexts == {s \o t : s \in UnitStems, t \in UnitTails}

\* Parser::new on a text, nothing called yet.
UnitInit ==
    /\ \E t \in UnitTexts :
        /\ bytes = str_bytes(t)
        /\ parser = <<Parser_new(t)>>
    /\ pc = "new"
    /\ result = <<>>

\* A call of method on the parser that leaves it as q and returns ret.
Called(method, indent, context, q, ret, to) ==
    /\ parser' = <<q>>
    /\ result' = <<[method |-> method, indent |-> indent, context |-> context,
                    from |-> parser[1], ret |-> ret]>>
    /\ pc' = IF Failed(q) THEN "panicked" ELSE to
    /\ UNCHANGED bytes

\* self.anchor_property() as the first call
CallAnchorProperty ==
    /\ pc = "new"
    /\ Called("anchor_property", None, "none", anchor_property(parser[1]), None, "ready")

\* self.tag_property() as the first call
CallTagProperty ==
    /\ pc = "new"
    /\ Called("tag_property", None, "none", tag_property(parser[1]), None, "ready")

\* self.try_inline_separator()
CallTryInlineSeparator ==
    /\ pc \in {"new", "ready"}
    /\ With(try_inline_separator(parser[1]), LAMBDA r :
           Called("try_inline_separator", None, "none", r.p, r.v, "called"))

\* self.try_line_separator(indent)
CallTryLineSeparator ==
    /\ pc \in {"new", "ready"}
    /\ \E indent \in 0..MaxIndent :
           With(try_line_separator(parser[1], indent), LAMBDA r :
               Called("try_line_separator", indent, "none", r.p, r.v, "called"))

\* self.try_separator(indent, context)
CallTrySeparator ==
    /\ pc \in {"new", "ready"}
    /\ \E indent \in 0..MaxIndent, context \in Contexts :
           With(try_separator(parser[1], indent, context), LAMBDA r :
               Called("try_separator", indent, context, r.p, r.v, "called"))

\* self.peek_next()
CallPeekNext ==
    /\ pc \in {"new", "ready"}
    /\ Called("peek_next", None, "none", parser[1], peek_next(parser[1]), "called")

\* is_plain_safe(ch, context) on the character at the cursor
CallIsPlainSafe ==
    /\ pc \in {"new", "ready"}
    /\ parser[1].idx < Len(parser[1].text)
    /\ \E context \in Contexts :
           With(is_plain_safe(parser[1].text[parser[1].idx + 1], context), LAMBDA r :
               Called("is_plain_safe", None, context,
                      IF r.unimplemented THEN panic(parser[1], "not implemented")
                      ELSE parser[1],
                      r.v, "called"))

\* self.properties(indent, context)
CallProperties ==
    /\ pc \in {"new", "ready"}
    /\ \E indent \in 0..MaxIndent, context \in Contexts :
           Called("properties", indent, context,
                  properties(parser[1], indent, context), None, "called")

\* self.flow_content(indent, context)
CallFlowContent ==
    /\ pc \in {"new", "ready"}
    /\ \E indent \in 0..MaxIndent, context \in Contexts :
           Called("flow_content", indent, context,
                  flow_content(parser[1], indent, context), None, "called")

\* self.flow_node(indent, context)
CallFlowNode ==
    /\ pc \in {"new", "ready"}
    /\ \E indent \in 0..MaxIndent, context \in Contexts :
           Called("flow_node", indent, context,
                  flow_node(parser[1], indent, context), None, "called")

UnitNext ==
    \/ CallAnchorProperty
    \/ CallTagProperty
    \/ CallTryInlineSeparator
    \/ CallTryLineSeparator
    \/ CallTrySeparator
    \/ CallPeekNext
    \/ CallIsPlainSafe
    \/ CallProperties
    \/ CallFlowContent
    \/ CallFlowNode

UnitSpec == UnitInit /\ [][UnitNext]_vars

\* The call made in a run of the methods, and the parser before and after.
TheCall == result[1]
Before == result[1].from
After == parser[1]

\* method has returned (without a panic).
Returned(method) == pc \in {"called", "ready"} /\ result # <<>> /\ TheCall.method = method

\* The leaves of the children that the builder holds, Root still open.
BuilderLeaves(p) == leaves_of(p.children)

\* The tokens and nodes that the call added to the builder.
Added == SubSeq(After.children, Len(Before.children) + 1, Len(After.children))

\* One of the three try-separator methods has returned.
SeparatorReturned ==
    \/ Returned("try_separator")
    \/ Returned("try_line_separator")
    \/ Returned("try_inline_separator")

\* The call was served by try_line_separator: called by name, or through
\* try_separator in a context that is not a key context.
LineSeparatorCall ==
    \/ TheCall.method = "try_line_separator"
    \/ /\ TheCall.method = "try_separator"
       /\ TheCall.context \in {"BlockIn", "BlockOut", "FlowIn", "FlowOut"}

\* Before the call the cursor was at a start of line or at white space.
AtInlineSeparator ==
    \/ Before.idx = 0
    \/ is_break(Before.text[Before.idx])
    \/ Before.idx < Len(Before.text) /\ is_whitespace(Before.text[Before.idx + 1])

\* Before the call, the rest of the line was blank, a comment, or missing.
AtLineEnd == peek_skip_inline_separator(Before) \in {None, LF, CR, HASH}

\* C12, as claimed: each of try_separator, try_line_separator and
\* try_inline_separator returns true if and only if the call moved the
\* scanner on by at least one character.
C12_TrueIffConsumed ==
    SeparatorReturned => (TheCall.ret <=> After.idx > Before.idx)

\* C12: each of the three returns false only when it consumed and emitted
\* nothing, and true whenever it consumed a character; it returns true
\* exactly when a separator is matched, and the separator may be empty: at a
\* start of line, and for a line separator also before a blank rest of
\* line, a comment or the end of input.
C12_SeparatorMatched ==
    SeparatorReturned =>
        /\ ~TheCall.ret =>
               /\ After.idx = Before.idx
               /\ After.children = Before.children
               /\ After.diagnostics = Before.diagnostics
        /\ After.idx > Before.idx => TheCall.ret
        /\ TheCall.ret <=> (AtInlineSeparator \/ (LineSeparatorCall /\ AtLineEnd))

\* C12 witness: try_line_separator has returned true at the end of input,
\* in the middle of a line, with nothing consumed.
C12_Witness ==
    /\ Returned("try_line_separator")
    /\ TheCall.ret
    /\ After.idx = Before.idx
    /\ Before.idx = Len(Before.text)
    /\ ~AtInlineSeparator

RECURSIVE first_of(_, _, _)
\* The index of the first pred character of s at or after i, or Len(s) + 1.
first_of(s, i, pred) ==
    IF i <= Len(s) /\ ~test(pred, s[i]) THEN first_of(s, i + 1, pred) ELSE i

\* The recovery predicate of a context by the dispatch table: line break
\* for the block contexts, flow indicator for the flow contexts.
TableRecovery(context) ==
    IF context \in {"BlockIn", "BlockOut", "BlockKey"} THEN "is_break"
    ELSE "is_flow_indicator"

\* The call was properties or flow_content, and it raised its own error at
\* the cursor it was called on: "expected '!' or '&'", "invalid flow content".
RaisedInContext ==
    /\ Returned("properties") \/ Returned("flow_content")
    /\ Len(After.diagnostics) = Len(Before.diagnostics) + 1
    /\ After.diagnostics[Len(After.diagnostics)].message
           \in {"expected '!' or '&'", "invalid flow content"}

\* C13: an error raised in a context skips the input up to the first
\* character of the recovery class that the dispatch table gives the
\* context, or to the end of input: the next line break for BlockIn,
\* BlockOut and BlockKey, the next flow indicator for FlowIn, FlowOut and
\* FlowKey.
C13_RecoveryByContext ==
    RaisedInContext =>
        After.idx + 1 =
            first_of(Before.text, Before.idx + 1, TableRecovery(TheCall.context))

\* The character that is_plain_safe was called on.
SafeChar == Before.text[Before.idx + 1]

\* C14, as claimed: for FlowOut, BlockKey and FlowKey a character is
\* plain-safe iff it is non-whitespace, flow indicators included; for FlowIn
\* iff it is non-whitespace and no flow indicator.
C14_FlowKeyAsBlockKey ==
    Returned("is_plain_safe") =>
        TheCall.ret =
            IF TheCall.context \in {"FlowOut", "BlockKey", "FlowKey"}
            THEN is_non_whitespace(SafeChar)
            ELSE is_non_whitespace(SafeChar) /\ ~is_flow_indicator(SafeChar)

\* C14: for FlowOut and BlockKey a character is plain-safe iff it is
\* non-whitespace, flow indicators included; for FlowIn and FlowKey iff it
\* is non-whitespace and no flow indicator. At a flow indicator FlowIn and
\* BlockKey differ, and FlowKey agrees with FlowIn.
C14_FlowKeyAsFlowIn ==
    Returned("is_plain_safe") =>
        /\ TheCall.context \in {"FlowOut", "BlockKey", "FlowIn", "FlowKey"}
        /\ TheCall.ret =
               IF TheCall.context \in {"FlowOut", "BlockKey"}
               THEN is_non_whitespace(SafeChar)
               ELSE is_non_whitespace(SafeChar) /\ ~is_flow_indicator(SafeChar)

\* C14 witness: ',' has been found not plain-safe in FlowKey context.
C14_Witness ==
    /\ Returned("is_plain_safe")
    /\ TheCall.context = "FlowKey"
    /\ SafeChar = 44
    /\ ~TheCall.ret

\* C15: when directive() returns, the scanner does not rest in the middle
\* of a line: it is at the end of input, immediately before a line-break
\* character, or at the start of a line.
C15_DirectiveEndsAtLineEnd ==
    pc = "parsed" =>
        \/ P.idx = Len(P.text)
        \/ is_break(P.text[P.idx + 1])
        \/ P.idx = 0
        \/ is_break(P.text[P.idx])

\* The leaves that the builder of p holds are the text up to its cursor.
Lossless(p) == concat_text(BuilderLeaves(p)) = SubSeq(p.text, 1, p.idx)

\* C16: for any indent and text, every character that try_line_separator
\* (try_separator in a non-key context) consumes is in a leaf token, the
\* indentation spaces that flow_line_prefix consumes included: after the
\* call the leaves still spell the text up to the scanner position.
C16_LineSeparatorLossless ==
    (SeparatorReturned /\ LineSeparatorCall /\ Lossless(Before)) => Lossless(After)

\* The codepoint after the one at the cursor of p, if there is one.
SecondCodepoint(p) == IF p.idx + 2 <= Len(p.text) THEN p.text[p.idx + 2] ELSE None

\* flow_content was called in a context with a plain-safe rule, on a
\* leading '?', ':' or '-'.
FlowContentOnIndicator ==
    /\ result # <<>> /\ TheCall.method = "flow_content"
    /\ TheCall.context \in {"FlowIn", "FlowOut", "FlowKey", "BlockKey"}
    /\ Before.idx < Len(Before.text)
    /\ Before.text[Before.idx + 1] \in {63, 58, 45}

\* C17: peek_next() leaves the cursor and returns the codepoint immediately
\* after the one peek() returns, or nothing when fewer than two codepoints
\* remain; flow_content goes on to the plain scalar after a leading '?',
\* ':' or '-' exactly when the character directly after it is plain-safe.
C17_PeekNextSecond ==
    /\ Returned("peek_next") =>
           /\ After = Before
           /\ TheCall.ret = SecondCodepoint(Before)
    /\ FlowContentOnIndicator =>
           (After.failure = "not yet implemented"
               <=> /\ SecondCodepoint(Before) # None
                   /\ is_plain_safe(SecondCodepoint(Before), TheCall.context).v)

\* The kinds of the nodes among the elements es, in order.
NodeKinds(es) ==
    [i \in 1..Len(SelectSeq(es, LAMBDA e : ~e.token)) |->
        SelectSeq(es, LAMBDA e : ~e.token)[i].kind]

\* properties was called on a well-formed property of the kind that first
\* parses, then a separator, then the character ch and with it a
\* well-formed property of the kind that second parses. sep is the parser
\* after the separator.
TwoProperties(first(_), second(_), ch, sep) ==
    /\ Returned("properties")
    /\ first(Before).diagnostics = Before.diagnostics
    /\ peek_skip_separator(first(Before), TheCall.context) = ch
    /\ sep.idx < Len(sep.text) /\ sep.text[sep.idx + 1] = ch
    /\ second(sep).diagnostics = Before.diagnostics

\* properties was called on a tag property, a separator and an anchor
\* property.
TagThenAnchor ==
    /\ result # <<>>
    /\ Before.idx < Len(Before.text) /\ Before.text[Before.idx + 1] = BANG
    /\ TwoProperties(tag_property, anchor_property, 38,
           try_separator(tag_property(Before), TheCall.indent, TheCall.context).p)

\* properties was called on an anchor property, a separator and a tag
\* property.
AnchorThenTag ==
    /\ result # <<>>
    /\ Before.idx < Len(Before.text) /\ Before.text[Before.idx + 1] = 38
    /\ TwoProperties(anchor_property, tag_property, BANG,
           try_separator(anchor_property(Before), TheCall.indent, TheCall.context).p)

\* C18: properties accepts both orders: a tag property, a separator and
\* then '&' give a TagProperty node followed by an AnchorProperty node and
\* no diagnostic, as an anchor property, a separator and then '!' give an
\* AnchorProperty node followed by a TagProperty node.
C18_BothOrders ==
    /\ TagThenAnchor =>
           /\ After.diagnostics = Before.diagnostics
           /\ NodeKinds(Added) = <<"TagProperty", "AnchorProperty">>
    /\ AnchorThenTag =>
           /\ After.diagnostics = Before.diagnostics
           /\ NodeKinds(Added) = <<"AnchorProperty", "TagProperty">>
=============================================================================
